---- MODULE Spec2Model ----
(***************************************************************************)
(* State preparation by Shende-Bullock-Markov disentangling, as written in *)
(* library/std/unstable_state_preparation.qs.                              *)
(*                                                                         *)
(* Numbers.  A Double that is an angle is an integer number of angle       *)
(* units, Pi units being a half turn, so that 0.5 * x is exact on every    *)
(* value the inputs below produce.  A Double that is a magnitude is kept   *)
(* as a signed square: the integer m stands for sgn(m) * sqrt(|m|), so     *)
(* that Sqrt(a*a + b*b) is exact.  A tolerance is a number of angle units  *)
(* (radians = units * pi / Pi).                                            *)
(***************************************************************************)
EXTENDS Integers, Sequences, FiniteSets, TLC

VARIABLES call, status, trace, sink, ret

vars == <<call, status, trace, sink, ret>>

\* Bounds of the model.
MaxQubits == 2
MaxCoeffs == 3
MaxTolSteps == 3

\* One half turn (pi radians) in angle units.
Pi == 2 ^ (MaxQubits + 2)

\* The least input phase: every caller-supplied phase is a multiple of it.
PhaseStep == 2 ^ MaxQubits

---------------------------------------------------------------------------
\* Numeric primitives.

AbsI(x) == IF x < 0 THEN -x ELSE x

AbsD(x) == IF x < 0 THEN -x ELSE x

\* 0.5 * x
Half(x) == x \div 2

\* a * a for a magnitude a kept as a signed square.
Squared(a) == AbsI(a)

\* Sqrt(s) for s >= 0: the magnitude whose square is s.
Sqrt(s) == s

\* ArcTan2(y, x) on magnitudes, in angle units; atan2(0, 0) = 0.  Defined
\* on the axes and the diagonals, which is where the inputs below stay.
ArcTan2(y, x) ==
    CASE y = 0 /\ x >= 0 -> 0
      [] y = 0 /\ x < 0 -> Pi
      [] x = 0 /\ y > 0 -> Pi \div 2
      [] x = 0 /\ y < 0 -> -(Pi \div 2)
      [] AbsI(y) = AbsI(x) /\ x > 0 /\ y > 0 -> Pi \div 4
      [] AbsI(y) = AbsI(x) /\ x < 0 /\ y > 0 -> 3 * (Pi \div 4)
      [] AbsI(y) = AbsI(x) /\ x < 0 /\ y < 0 -> -(3 * (Pi \div 4))
      [] AbsI(y) = AbsI(x) /\ x > 0 /\ y < 0 -> -(Pi \div 4)

\* ArcTan2 is defined on (y, x).
OnGrid(y, x) == y = 0 \/ x = 0 \/ AbsI(y) = AbsI(x)

\* magnitude > tolerance, the magnitude a signed square m and the tolerance
\* in angle units: sgn(m) * sqrt(|m|) > tolerance * pi / Pi, with pi taken
\* as 355/113 (exact on the values of this model).
MagnitudeExceeds(m, tolerance) ==
    IF tolerance >= 0
    THEN m > 0 /\ m * Pi * Pi * 12769 > tolerance * tolerance * 126025
    ELSE m >= 0 \/ (-m) * Pi * Pi * 12769 < tolerance * tolerance * 126025

---------------------------------------------------------------------------
\* Complex numbers in polar form, and arrays.

ComplexPolar(r, t) == [Magnitude |-> r, Argument |-> t]

AbsComplexPolar(a) == a.Magnitude

ArgComplexPolar(a) == a.Argument

\* ComplexAsComplexPolar(Complex(a, 0.0)) = ComplexPolar(AbsComplex, ArgComplex)
\* = (Sqrt(a*a + 0*0), ArcTan2(0, a)).
ComplexAsComplexPolar(a) == ComplexPolar(Sqrt(Squared(a) + Squared(0)), ArcTan2(0, a))

Repeated(x, n) == [i \in 1..n |-> x]

\* Most(s): all but the last element.  TailOf(s): the last element (Q# Tail).
Most(s) == SubSeq(s, 1, Len(s) - 1)

TailOf(s) == s[Len(s)]

\* Padded(paddedLength, defaultElement, inputArray): a negative length pads
\* at the tail, a positive one at the head; an input longer than the
\* requested length is an InvalidArgument.
Padded(paddedLength, defaultElement, inputArray) ==
    LET nElementsInitial == Len(inputArray)
        nAbsElementsTotal == AbsI(paddedLength)
        padArray == Repeated(defaultElement, nAbsElementsTotal - nElementsInitial)
    IN  IF nElementsInitial > nAbsElementsTotal
        THEN [ok |-> FALSE, val |-> <<>>]
        ELSE [ok |-> TRUE,
              val |-> IF paddedLength >= 0 THEN padArray \o inputArray
                                           ELSE inputArray \o padArray]

\* Ranges start..step..end.
Range(start, step, end) == [start |-> start, step |-> step, end |-> end]

RangeStart(r) == r.start

RangeStep(r) == r.step

RangeEnd(r) == r.end

IsRangeEmpty(r) == IF r.step > 0 THEN r.start > r.end ELSE r.start < r.end

RECURSIVE RangeItems(_)
RangeItems(r) ==
    IF IsRangeEmpty(r) THEN <<>>
    ELSE <<r.start>> \o RangeItems(Range(r.start + r.step, r.step, r.end))

\* register[range]; qubit i of a register is register[i + 1] here.
Slice(register, r) ==
    LET idx == RangeItems(r) IN [i \in 1..Len(idx) |-> register[idx[i] + 1]]

---------------------------------------------------------------------------
\* What an operation does: the events it produced, in order, and whether it
\* returned (ok) or failed.  An event is a gate handed to the sink or the
\* entry into an operation.

Gate(op, target, controls, angle) ==
    [kind |-> "gate", op |-> op, target |-> target, controls |-> controls,
     angle |-> angle, len |-> 0]

Entry(op, len, controls, target) ==
    [kind |-> "call", op |-> op, target |-> target, controls |-> controls,
     angle |-> 0, len |-> len]

Done(ev) == [ok |-> TRUE, ev |-> ev]

Failed(ev) == [ok |-> FALSE, ev |-> ev]

\* a; b    (b does not run when a failed)
Then(a, b) == IF a.ok THEN [ok |-> b.ok, ev |-> a.ev \o b.ev] ELSE a

\* The statements a; b of a body, or of its generated adjoint (b; a).
InOrderForward(adj, a, b) == Then(a, b)

InOrder(adj, a, b) == IF adj THEN Then(b, a) ELSE Then(a, b)

IsGate(e) == e.kind = "gate"

Gates(ev) == SelectSeq(ev, IsGate)

\* Intrinsic gates; adj selects the adjoint.
Exp(adj, pauli, angle, target) ==
    Done(<<Gate(IF pauli = "PauliZ" THEN "ExpZ" ELSE "ExpI", target, <<>>,
                IF adj THEN -angle ELSE angle)>>)

H(target) == Done(<<Gate("H", target, <<>>, 0)>>)

S(adj, target) == Done(<<Gate(IF adj THEN "AdjS" ELSE "S", target, <<>>, 0)>>)

CNOTReversed(control, target) == Done(<<Gate("CNOT", control, <<target>>, 0)>>)

CNOT(control, target) == Done(<<Gate("CNOT", target, <<control>>, 0)>>)

---------------------------------------------------------------------------
\* The synthesis, operation by operation.  adj = TRUE is the adjoint the
\* compiler generates for an operation declared "is Adj": the statements in
\* reverse order, each call replaced by its adjoint, the conditions and the
\* within-blocks unchanged.

MultiplexZCoefficientsUnsplit(coefficients) == <<coefficients, coefficients>>

MultiplexZCoefficients(coefficients) ==
    LET newCoefficientsLength == Len(coefficients) \div 2
        coefficients0 == [idxCoeff \in 1..newCoefficientsLength |->
            Half(coefficients[idxCoeff] + coefficients[idxCoeff + newCoefficientsLength])]
        coefficients1 == [idxCoeff \in 1..newCoefficientsLength |->
            Half(coefficients[idxCoeff] - coefficients[idxCoeff + newCoefficientsLength])]
    IN  <<coefficients0, coefficients1>>

AnyOutsideToleranceDStrict(tolerance, coefficients) ==
    \E i \in 1..Len(coefficients) : AbsD(coefficients[i]) > tolerance

AnyOutsideToleranceDWithin(tolerance, coefficients) ==
    \E i \in 1..Len(coefficients) : AbsD(coefficients[i]) <= tolerance

AnyOutsideToleranceD(tolerance, coefficients) ==
    \E i \in 1..Len(coefficients) : AbsD(coefficients[i]) >= tolerance

AnyOutsideToleranceCPInclusive(tolerance, coefficients) ==
    \E i \in 1..Len(coefficients) :
        \/ MagnitudeExceeds(AbsComplexPolar(coefficients[i]), tolerance)
        \/ (AbsComplexPolar(coefficients[i]) = 0 /\ tolerance = 0)

AnyOutsideToleranceCP(tolerance, coefficients) ==
    \E i \in 1..Len(coefficients) :
        MagnitudeExceeds(AbsComplexPolar(coefficients[i]), tolerance)

BlochSphereCoordinatesSwapped(a0, a1) ==
    <<ComplexPolar(Sqrt(Squared(AbsComplexPolar(a0)) + Squared(AbsComplexPolar(a1))),
                   Half(ArgComplexPolar(a0) + ArgComplexPolar(a1))),
      ArgComplexPolar(a1) - ArgComplexPolar(a0),
      2 * ArcTan2(AbsComplexPolar(a0), AbsComplexPolar(a1))>>

BlochSphereCoordinatesPhiReversed(a0, a1) ==
    <<ComplexPolar(Sqrt(Squared(AbsComplexPolar(a0)) + Squared(AbsComplexPolar(a1))),
                   Half(ArgComplexPolar(a0) + ArgComplexPolar(a1))),
      ArgComplexPolar(a0) - ArgComplexPolar(a1),
      2 * ArcTan2(AbsComplexPolar(a1), AbsComplexPolar(a0))>>

BlochSphereCoordinates(a0, a1) ==
    LET abs0 == AbsComplexPolar(a0)
        abs1 == AbsComplexPolar(a1)
        arg0 == ArgComplexPolar(a0)
        arg1 == ArgComplexPolar(a1)
        r == Sqrt(Squared(abs0) + Squared(abs1))
        t == Half(arg0 + arg1)
        phi == arg1 - arg0
        theta == 2 * ArcTan2(abs1, abs0)
    IN  <<ComplexPolar(r, t), phi, theta>>

StatePreparationSBMComputeCoefficientsUnhalved(coefficients) ==
    LET n == Len(coefficients) \div 2
        bloch(i) == BlochSphereCoordinates(coefficients[2 * i - 1], coefficients[2 * i])
    IN  <<[i \in 1..n |-> bloch(i)[3]], [i \in 1..n |-> bloch(i)[2]],
          [i \in 1..n |-> bloch(i)[1]]>>

StatePreparationSBMComputeCoefficients(coefficients) ==
    LET n == Len(coefficients) \div 2
        bloch(i) == BlochSphereCoordinates(coefficients[2 * i - 1], coefficients[2 * i])
        disentanglingZ == [i \in 1..n |-> Half(bloch(i)[2])]
        disentanglingY == [i \in 1..n |-> Half(bloch(i)[3])]
        newCoefficients == [i \in 1..n |-> bloch(i)[1]]
    IN  <<disentanglingY, disentanglingZ, newCoefficients>>

RECURSIVE ApproximatelyMultiplexZ(_, _, _, _, _)

ApproximatelyMultiplexZStrict(adj, tolerance, coefficients, control, target) ==
    LET entry == <<Entry("ApproximatelyMultiplexZ", Len(coefficients), control, target)>>
        padded == Padded(-(2 ^ Len(control)), 0, coefficients)
        coefficientsPadded == padded.val
        split == MultiplexZCoefficients(coefficientsPadded)
    IN  IF ~padded.ok THEN Failed(entry)
        ELSE IF Len(coefficientsPadded) = 1
        THEN Then(Done(entry),
                  IF AbsD(coefficientsPadded[1]) > tolerance
                  THEN Exp(adj, "PauliZ", coefficientsPadded[1], target)
                  ELSE Done(<<>>))
        ELSE Then(Done(entry),
                  InOrder(adj,
                      ApproximatelyMultiplexZ(adj, tolerance, split[1], Most(control), target),
                      IF \E i \in 1..Len(split[2]) : AbsD(split[2][i]) > tolerance
                      THEN Then(CNOT(TailOf(control), target),
                           Then(ApproximatelyMultiplexZ(adj, tolerance, split[2],
                                                        Most(control), target),
                                CNOT(TailOf(control), target)))
                      ELSE Done(<<>>)))

ApproximatelyMultiplexZSkipping(adj, tolerance, coefficients, control, target) ==
    LET entry == <<Entry("ApproximatelyMultiplexZ", Len(coefficients), control, target)>>
        padded == Padded(-(2 ^ Len(control)), 0, coefficients)
        split == MultiplexZCoefficients(padded.val)
        fewer == IF Len(control) >= 2 THEN Most(Most(control)) ELSE Most(control)
    IN  IF ~padded.ok THEN Failed(entry)
        ELSE IF Len(padded.val) = 1
        THEN Then(Done(entry),
                  IF AbsD(padded.val[1]) > tolerance
                  THEN Exp(adj, "PauliZ", padded.val[1], target)
                  ELSE Done(<<>>))
        ELSE Then(Done(entry),
                  InOrder(adj,
                      ApproximatelyMultiplexZ(adj, tolerance, split[1], Most(control), target),
                      IF AnyOutsideToleranceD(tolerance, split[2])
                      THEN Then(CNOT(TailOf(control), target),
                           Then(ApproximatelyMultiplexZ(adj, tolerance, split[2], fewer, target),
                                CNOT(TailOf(control), target)))
                      ELSE Done(<<>>)))

ApproximatelyMultiplexZ(adj, tolerance, coefficients, control, target) ==
    LET entry == <<Entry("ApproximatelyMultiplexZ", Len(coefficients), control, target)>>
        padded == Padded(-(2 ^ Len(control)), 0, coefficients)
        coefficientsPadded == padded.val
        split == MultiplexZCoefficients(coefficientsPadded)
        coefficients0 == split[1]
        coefficients1 == split[2]
    IN  IF ~padded.ok THEN Failed(entry)
        ELSE IF Len(coefficientsPadded) = 1
        THEN Then(Done(entry),
                  IF AbsD(coefficientsPadded[1]) > tolerance
                  THEN Exp(adj, "PauliZ", coefficientsPadded[1], target)
                  ELSE Done(<<>>))
        ELSE Then(Done(entry),
                  InOrder(adj,
                      ApproximatelyMultiplexZ(adj, tolerance, coefficients0, Most(control), target),
                      IF AnyOutsideToleranceD(tolerance, coefficients1)
                      THEN Then(CNOT(TailOf(control), target),
                           Then(ApproximatelyMultiplexZ(adj, tolerance, coefficients1,
                                                        Most(control), target),
                                CNOT(TailOf(control), target)))
                      ELSE Done(<<>>)))

\* Controlled X(controlRegister, target)
ControlledX(controlRegister, target) == Done(<<Gate("ControlledX", target, controlRegister, 0)>>)

ControlledApproximatelyMultiplexZTailPadded(tolerance, coefficients, controlRegister, control, target) ==
    LET entry == <<Entry("ControlledApproximatelyMultiplexZ", Len(coefficients), control, target)>>
        inner == Padded(-(2 ^ Len(control)), 0, coefficients)
        split == MultiplexZCoefficients(Padded(-(2 ^ (Len(control) + 1)), 0, inner.val).val)
    IN  IF ~inner.ok THEN Failed(entry)
        ELSE Then(Done(entry),
             Then(ApproximatelyMultiplexZ(FALSE, tolerance, split[1], control, target),
                  IF AnyOutsideToleranceD(tolerance, split[2])
                  THEN Then(ControlledX(controlRegister, target),
                       Then(ApproximatelyMultiplexZ(FALSE, tolerance, split[2], control, target),
                            ControlledX(controlRegister, target)))
                  ELSE Done(<<>>)))

\* The controlled specialization of ApproximatelyMultiplexZ.
ControlledApproximatelyMultiplexZ(tolerance, coefficients, controlRegister, control, target) ==
    LET entry == <<Entry("ControlledApproximatelyMultiplexZ", Len(coefficients), control, target)>>
        inner == Padded(-(2 ^ Len(control)), 0, coefficients)
        padded == Padded(2 ^ (Len(control) + 1), 0, inner.val)
        coefficientsPadded == padded.val
        split == MultiplexZCoefficients(coefficientsPadded)
        coefficients0 == split[1]
        coefficients1 == split[2]
    IN  IF ~inner.ok \/ ~padded.ok THEN Failed(entry)
        ELSE Then(Done(entry),
             Then(ApproximatelyMultiplexZ(FALSE, tolerance, coefficients0, control, target),
                  IF AnyOutsideToleranceD(tolerance, coefficients1)
                  THEN Then(ControlledX(controlRegister, target),
                       Then(ApproximatelyMultiplexZ(FALSE, tolerance, coefficients1,
                                                    control, target),
                            ControlledX(controlRegister, target)))
                  ELSE Done(<<>>)))

RECURSIVE ApproximatelyApplyDiagonalUnitary(_, _, _, _)

ApproximatelyApplyDiagonalUnitaryInclusive(adj, tolerance, coefficients, qubits) ==
    LET entry == <<Entry("ApproximatelyApplyDiagonalUnitary", Len(coefficients), qubits, -1)>>
        padded == Padded(-(2 ^ Len(qubits)), 0, coefficients)
        split == MultiplexZCoefficients(padded.val)
    IN  IF qubits = <<>> \/ ~padded.ok THEN Failed(entry)
        ELSE Then(Done(entry),
                  InOrder(adj,
                      ApproximatelyMultiplexZ(adj, tolerance, split[2],
                                              Most(qubits), TailOf(qubits)),
                      IF Len(padded.val) = 2
                      THEN IF AbsD(split[1][1]) >= tolerance
                           THEN Exp(adj, "PauliI", split[1][1], qubits[1])
                           ELSE Done(<<>>)
                      ELSE ApproximatelyApplyDiagonalUnitary(adj, tolerance, split[1],
                                                             Most(qubits))))

ApproximatelyApplyDiagonalUnitary(adj, tolerance, coefficients, qubits) ==
    LET entry == <<Entry("ApproximatelyApplyDiagonalUnitary", Len(coefficients), qubits, -1)>>
        padded == Padded(-(2 ^ Len(qubits)), 0, coefficients)
        coefficientsPadded == padded.val
        split == MultiplexZCoefficients(coefficientsPadded)
        coefficients0 == split[1]
        coefficients1 == split[2]
    IN  IF qubits = <<>> THEN Failed(entry)
        ELSE IF ~padded.ok THEN Failed(entry)
        ELSE Then(Done(entry),
                  InOrder(adj,
                      ApproximatelyMultiplexZ(adj, tolerance, coefficients1,
                                              Most(qubits), TailOf(qubits)),
                      IF Len(coefficientsPadded) = 2
                      THEN IF AbsD(coefficients0[1]) > tolerance
                           THEN Exp(adj, "PauliI", coefficients0[1], qubits[1])
                           ELSE Done(<<>>)
                      ELSE ApproximatelyApplyDiagonalUnitary(adj, tolerance, coefficients0,
                                                             Most(qubits))))

RECURSIVE ApproximatelyMultiplexPauli(_, _, _, _, _, _)

ApproximatelyMultiplexPauliSingleBasisChange(adj, tolerance, coefficients, pauli, control, target) ==
    LET entry == <<Entry("ApproximatelyMultiplexPauli", Len(coefficients), control, target)>>
        multiplexZ == ApproximatelyMultiplexZ(adj, tolerance, coefficients, control, target)
    IN  IF pauli = "PauliZ" THEN Then(Done(entry), multiplexZ)
        ELSE IF pauli = "PauliX"
        THEN Then(Done(entry), Then(H(target), Then(multiplexZ, H(target))))
        ELSE IF pauli = "PauliY"
        THEN Then(Done(entry), Then(S(TRUE, target), Then(multiplexZ, S(FALSE, target))))
        ELSE IF pauli = "PauliI"
        THEN Then(Done(entry),
                  ApproximatelyApplyDiagonalUnitary(adj, tolerance, coefficients, control))
        ELSE Failed(entry)

ApproximatelyMultiplexPauli(adj, tolerance, coefficients, pauli, control, target) ==
    LET entry == <<Entry("ApproximatelyMultiplexPauli", Len(coefficients), control, target)>>
    IN  IF pauli = "PauliZ"
        THEN Then(Done(entry),
                  ApproximatelyMultiplexZ(adj, tolerance, coefficients, control, target))
        ELSE IF pauli = "PauliX"
        THEN Then(Done(entry),
             Then(H(target),
             Then(ApproximatelyMultiplexPauli(adj, tolerance, coefficients, "PauliZ",
                                              control, target),
                  H(target))))
        ELSE IF pauli = "PauliY"
        THEN Then(Done(entry),
             Then(S(TRUE, target),
             Then(ApproximatelyMultiplexPauli(adj, tolerance, coefficients, "PauliX",
                                              control, target),
                  S(FALSE, target))))
        ELSE IF pauli = "PauliI"
        THEN Then(Done(entry),
                  ApproximatelyApplyDiagonalUnitary(adj, tolerance, coefficients, control))
        ELSE Failed(entry)

RECURSIVE ApproximatelyUnprepareArbitraryState(_, _, _, _, _, _)

ApproximatelyUnprepareArbitraryStatePhaseKept(adj, tolerance, coefficients, rngControl, idxTarget, register) ==
    LET entry == <<Entry("ApproximatelyUnprepareArbitraryState", Len(coefficients),
                         Slice(register, rngControl), register[idxTarget + 1])>>
        computed == StatePreparationSBMComputeCoefficients(coefficients)
        control == Slice(register, rngControl)
        target == register[idxTarget + 1]
        stepZ == IF AnyOutsideToleranceD(tolerance, computed[2])
                 THEN ApproximatelyMultiplexPauli(adj, tolerance, computed[2], "PauliZ",
                                                  control, target)
                 ELSE Done(<<>>)
        stepY == IF AnyOutsideToleranceD(tolerance, computed[1])
                 THEN ApproximatelyMultiplexPauli(adj, tolerance, computed[1], "PauliY",
                                                  control, target)
                 ELSE Done(<<>>)
        rest  == IF IsRangeEmpty(rngControl)
                 THEN IF AbsD(computed[3][1].Argument) > tolerance
                      THEN Exp(adj, "PauliI", computed[3][1].Argument, target)
                      ELSE Done(<<>>)
                 ELSE IF AnyOutsideToleranceCP(tolerance, computed[3])
                      THEN ApproximatelyUnprepareArbitraryState(adj, tolerance, computed[3],
                               Range(RangeStart(rngControl) + 1, RangeStep(rngControl),
                                     RangeEnd(rngControl)),
                               RangeStart(rngControl), register)
                      ELSE Done(<<>>)
    IN  Then(Done(entry), InOrder(adj, stepZ, InOrder(adj, stepY, rest)))

ApproximatelyUnprepareArbitraryState(adj, tolerance, coefficients, rngControl, idxTarget, register) ==
    LET entry == <<Entry("ApproximatelyUnprepareArbitraryState", Len(coefficients),
                         Slice(register, rngControl), register[idxTarget + 1])>>
        computed == StatePreparationSBMComputeCoefficients(coefficients)
        disentanglingY == computed[1]
        disentanglingZ == computed[2]
        newCoefficients == computed[3]
        arg == newCoefficients[1].Argument
        newControl == Range(RangeStart(rngControl) + 1, RangeStep(rngControl), RangeEnd(rngControl))
        newTarget == RangeStart(rngControl)
        stepZ == IF AnyOutsideToleranceD(tolerance, disentanglingZ)
                 THEN ApproximatelyMultiplexPauli(adj, tolerance, disentanglingZ, "PauliZ",
                          Slice(register, rngControl), register[idxTarget + 1])
                 ELSE Done(<<>>)
        stepY == IF AnyOutsideToleranceD(tolerance, disentanglingY)
                 THEN ApproximatelyMultiplexPauli(adj, tolerance, disentanglingY, "PauliY",
                          Slice(register, rngControl), register[idxTarget + 1])
                 ELSE Done(<<>>)
        rest  == IF IsRangeEmpty(rngControl)
                 THEN IF AbsD(arg) > tolerance
                      THEN Exp(adj, "PauliI", -arg, register[idxTarget + 1])
                      ELSE Done(<<>>)
                 ELSE IF AnyOutsideToleranceCP(tolerance, newCoefficients)
                      THEN ApproximatelyUnprepareArbitraryState(adj, tolerance, newCoefficients,
                               newControl, newTarget, register)
                      ELSE Done(<<>>)
    IN  Then(Done(entry), InOrder(adj, stepZ, InOrder(adj, stepY, rest)))

ApproximatelyPreparePureStateCPTruncating(adj, tolerance, coefficients, qubits) ==
    LET nQubits == Len(qubits)
        kept == IF Len(coefficients) > 2 ^ nQubits
                THEN SubSeq(coefficients, 1, 2 ^ nQubits) ELSE coefficients
        padded == Padded(-(2 ^ nQubits), ComplexPolar(0, 0), kept)
        rngControl == IF nQubits > 1 THEN Range(1, 1, nQubits - 1) ELSE Range(1, 1, 0)
    IN  Then(Done(<<Entry("ApproximatelyPreparePureStateCP", Len(coefficients), qubits, -1)>>),
             ApproximatelyUnprepareArbitraryState(~adj, tolerance, padded.val,
                                                  rngControl, 0, qubits))

ApproximatelyPreparePureStateCPValidating(adj, tolerance, coefficients, qubits) ==
    LET nQubits == Len(qubits)
        padded == Padded(-(2 ^ nQubits), ComplexPolar(0, 0), coefficients)
        rngControl == IF nQubits > 1 THEN Range(1, 1, nQubits - 1) ELSE Range(1, 1, 0)
        entry == <<Entry("ApproximatelyPreparePureStateCP", Len(coefficients), qubits, -1)>>
    IN  IF tolerance < 0 \/ ~padded.ok THEN Failed(entry)
        ELSE Then(Done(entry),
                  ApproximatelyUnprepareArbitraryState(~adj, tolerance, padded.val,
                                                       rngControl, 0, qubits))

ApproximatelyPreparePureStateCP(adj, tolerance, coefficients, qubits) ==
    LET entry == <<Entry("ApproximatelyPreparePureStateCP", Len(coefficients), qubits, -1)>>
        nQubits == Len(qubits)
        padded == Padded(-(2 ^ nQubits), ComplexPolar(0, 0), coefficients)
        coefficientsPadded == padded.val
        idxTarget == 0
        rngControl == IF nQubits > 1 THEN Range(1, 1, nQubits - 1) ELSE Range(1, 1, 0)
    IN  IF ~padded.ok THEN Failed(entry)
        ELSE Then(Done(entry),
                  ApproximatelyUnprepareArbitraryState(~adj, tolerance, coefficientsPadded,
                                                       rngControl, idxTarget, qubits))

PreparePureStateDSigned(adj, coefficients, qubits) ==
    Then(Done(<<Entry("PreparePureStateD", Len(coefficients), qubits, -1)>>),
         ApproximatelyPreparePureStateCP(adj, 0,
             [i \in 1..Len(coefficients) |-> ComplexPolar(coefficients[i], 0)], qubits))

PreparePureStateD(adj, coefficients, qubits) ==
    LET entry == <<Entry("PreparePureStateD", Len(coefficients), qubits, -1)>>
        coefficientsAsComplexPolar ==
            [i \in 1..Len(coefficients) |-> ComplexAsComplexPolar(coefficients[i])]
    IN  Then(Done(entry),
             ApproximatelyPreparePureStateCP(adj, 0, coefficientsAsComplexPolar, qubits))

---------------------------------------------------------------------------
\* The caller: registers, inputs, and one call at a time on a fresh sink.

\* A register of n qubits, qubit i being the handle i.
Register(n) == [i \in 1..n |-> i - 1]

\* The tolerances tried, one of them negative.
TolStep == Pi \div 8

Tolerances == {k * TolStep : k \in (-1)..MaxTolSteps}

\* Caller-supplied amplitudes: magnitude (signed square) and phase.
Amplitudes ==
    {ComplexPolar(0, 0), ComplexPolar(1, 0), ComplexPolar(1, PhaseStep), ComplexPolar(-1, 0)}

Reals == {-1, 0, 1}

Angles == {-PhaseStep, 0, PhaseStep}

Paulis == {"PauliI", "PauliX", "PauliY", "PauliZ"}

Vectors(values) == UNION {[1..l -> values] : l \in 0..MaxCoeffs}

\* Every pair met by the disentangling of a vector of length 2^(k+1) lies
\* where ArcTan2 is defined.
RECURSIVE Representable(_)
Representable(coefficients) ==
    IF \A i \in 1..(Len(coefficients) \div 2) :
           OnGrid(coefficients[2 * i].Magnitude, coefficients[2 * i - 1].Magnitude)
    THEN IF Len(coefficients) > 2
         THEN Representable(StatePreparationSBMComputeCoefficients(coefficients)[3])
         ELSE TRUE
    ELSE FALSE

Preparable(coefficients, n) ==
    LET padded == Padded(-(2 ^ n), ComplexPolar(0, 0), coefficients)
    IN  IF padded.ok THEN Representable(padded.val) ELSE TRUE

\* --------------------------------------------------------------------------
\* The compiler web worker and the test-mode logger of the editor extension
\* are separate programs with their own state.  The state-preparation
\* operations leave that state alone, and the two programs leave the
\* state-preparation state alone.
\* --------------------------------------------------------------------------
VARIABLES invokeCompiler, arrived, dispatched, errors, uncaught,
          listener, buffered, delivered, calls, listeners

workerVars == <<invokeCompiler, arrived, dispatched, errors, uncaught>>

loggerVars == <<listener, buffered, delivered, calls, listeners>>

\* The worker module right after it is loaded: no dispatcher yet.
\* invokeCompiler is 0 for null and the number of the dispatcher otherwise;
\* arrived is the history of the message events handed to messageHandler,
\* dispatched the calls made to dispatchers, errors the log.error calls, and
\* uncaught the events whose handling ended in an exception.
WorkerInit ==
    /\ invokeCompiler = 0
    /\ arrived = <<>>
    /\ dispatched = <<>>
    /\ errors = <<>>
    /\ uncaught = <<>>

\* The logger right after initializePassThroughLogger() returned: no
\* listener (0 stands for undefined) and nothing buffered.  delivered is the
\* history of the calls made to listeners, calls the history of the calls made
\* to the log functions and to setListener, listeners the number of
\* setListener calls so far.
LoggerInit ==
    /\ listener = 0
    /\ buffered = <<>>
    /\ delivered = <<>>
    /\ calls = <<>>
    /\ listeners = 0

Init ==
    /\ call = [op |-> "none", adj |-> FALSE, tolerance |-> 0, coefficients |-> <<>>,
               pauli |-> "none", qubits |-> <<>>]
    /\ status = "idle"
    /\ trace = <<>>
    /\ sink = <<>>
    /\ ret = <<>>
    /\ WorkerInit
    /\ LoggerInit

\* The call c ran to its end (or to its failure) with the given result.
Finish(c, result, value) ==
    /\ status = "idle"
    /\ call' = c
    /\ trace' = result.ev
    /\ sink' = sink \o Gates(result.ev)
    /\ status' = IF result.ok THEN "returned" ELSE "failed"
    /\ ret' = value
    /\ UNCHANGED <<workerVars, loggerVars>>

CallPreparePureStateD ==
    /\ status = "idle"
    /\ \E adj \in BOOLEAN, coefficients \in Vectors(Reals), n \in 1..MaxQubits :
        /\ Preparable([i \in 1..Len(coefficients) |-> ComplexAsComplexPolar(coefficients[i])], n)
        /\ Finish([op |-> "PreparePureStateD", adj |-> adj, tolerance |-> 0,
                   coefficients |-> coefficients, pauli |-> "none", qubits |-> Register(n)],
                  PreparePureStateD(adj, coefficients, Register(n)), <<>>)

CallApproximatelyPreparePureStateCP ==
    /\ status = "idle"
    /\ \E adj \in BOOLEAN, tolerance \in Tolerances, coefficients \in Vectors(Amplitudes),
       n \in 1..MaxQubits :
        /\ Preparable(coefficients, n)
        /\ Finish([op |-> "ApproximatelyPreparePureStateCP", adj |-> adj,
                   tolerance |-> tolerance, coefficients |-> coefficients,
                   pauli |-> "none", qubits |-> Register(n)],
                  ApproximatelyPreparePureStateCP(adj, tolerance, coefficients, Register(n)),
                  <<>>)

\* The multiplex operations called on their own (body, not adjoint):
\* target = qubit 0, control = qubits 1..k.
CallApproximatelyMultiplexZ ==
    /\ status = "idle"
    /\ \E tolerance \in Tolerances, coefficients \in Vectors(Angles), k \in 0..MaxQubits :
        Finish([op |-> "ApproximatelyMultiplexZ", adj |-> FALSE, tolerance |-> tolerance,
                coefficients |-> coefficients, pauli |-> "PauliZ",
                qubits |-> Register(k + 1)],
               ApproximatelyMultiplexZ(FALSE, tolerance, coefficients,
                                       SubSeq(Register(k + 1), 2, k + 1), 0),
               <<>>)

\* Controlled ApproximatelyMultiplexZ on one outer control: target = qubit 0,
\* control = qubits 1..k, controlRegister = qubit k + 1.
CallControlledApproximatelyMultiplexZ ==
    /\ status = "idle"
    /\ \E tolerance \in Tolerances, coefficients \in Vectors(Angles),
          k \in 0..(MaxQubits - 1) :
        Finish([op |-> "ControlledApproximatelyMultiplexZ", adj |-> FALSE,
                tolerance |-> tolerance, coefficients |-> coefficients,
                pauli |-> "PauliZ", qubits |-> Register(k + 2)],
               ControlledApproximatelyMultiplexZ(tolerance, coefficients, <<k + 1>>,
                                                 SubSeq(Register(k + 2), 2, k + 1), 0),
               <<>>)

CallApproximatelyMultiplexPauli ==
    /\ status = "idle"
    /\ \E tolerance \in Tolerances, coefficients \in Vectors(Angles), pauli \in Paulis,
          k \in {0, MaxQubits - 1} :
        Finish([op |-> "ApproximatelyMultiplexPauli", adj |-> FALSE, tolerance |-> tolerance,
                coefficients |-> coefficients, pauli |-> pauli,
                qubits |-> Register(k + 1)],
               ApproximatelyMultiplexPauli(FALSE, tolerance, coefficients, pauli,
                                           SubSeq(Register(k + 1), 2, k + 1), 0),
               <<>>)

CallApproximatelyApplyDiagonalUnitary ==
    /\ status = "idle"
    /\ \E tolerance \in Tolerances, coefficients \in Vectors(Angles), k \in 0..MaxQubits :
        Finish([op |-> "ApproximatelyApplyDiagonalUnitary", adj |-> FALSE,
                tolerance |-> tolerance, coefficients |-> coefficients,
                pauli |-> "PauliI", qubits |-> Register(k)],
               ApproximatelyApplyDiagonalUnitary(FALSE, tolerance, coefficients, Register(k)),
               <<>>)

BlochPhases == {k * PhaseStep : k \in -2..2} \cup {Pi, -Pi}

BlochAmplitudes == {ComplexPolar(r, t) : r \in Reals, t \in BlochPhases}

CallBlochSphereCoordinates ==
    /\ status = "idle"
    /\ \E a0 \in BlochAmplitudes, a1 \in BlochAmplitudes :
        Finish([op |-> "BlochSphereCoordinates", adj |-> FALSE, tolerance |-> 0,
                coefficients |-> <<a0, a1>>, pauli |-> "none", qubits |-> <<>>],
               Done(<<>>), BlochSphereCoordinates(a0, a1))

\* The caller takes a fresh register and an empty sink for the next call.
Reset ==
    /\ status # "idle"
    /\ call' = [op |-> "none", adj |-> FALSE, tolerance |-> 0, coefficients |-> <<>>,
                pauli |-> "none", qubits |-> <<>>]
    /\ status' = "idle"
    /\ trace' = <<>>
    /\ sink' = <<>>
    /\ ret' = <<>>
    /\ UNCHANGED <<workerVars, loggerVars>>

Next ==
    \/ CallPreparePureStateD
    \/ CallApproximatelyPreparePureStateCP
    \/ CallApproximatelyMultiplexZ
    \/ CallControlledApproximatelyMultiplexZ
    \/ CallApproximatelyMultiplexPauli
    \/ CallApproximatelyApplyDiagonalUnitary
    \/ CallBlochSphereCoordinates
    \/ Reset

Spec == Init /\ [][Next]_vars

TypeOK ==
    /\ status \in {"idle", "returned", "failed"}
    /\ \A i \in 1..Len(sink) : sink[i].kind = "gate"

---------------------------------------------------------------------------
\* What the gates do to a register: exact simulation.  With z = e^(i*pi/Pi),
\* a complex number is kept as the integer coefficients of 1, z, ..,
\* z^(Pi-1) (z^Pi = -1), and a register state as one such number per basis
\* state 0 .. 2^n - 1 (little-endian: bit q of the index is qubit q) with
\* the count h of factors 1/sqrt(2) taken out.

Zero == [j \in 0..(Pi - 1) |-> 0]

One == [j \in 0..(Pi - 1) |-> IF j = 0 THEN 1 ELSE 0]

Plus(u, v) == [j \in 0..(Pi - 1) |-> u[j] + v[j]]

Minus(u, v) == [j \in 0..(Pi - 1) |-> u[j] - v[j]]

\* v * z^a
TimesZ(v, a) ==
    LET b == a % (2 * Pi)
    IN  [j \in 0..(Pi - 1) |->
            LET j0 == (j - b) % Pi
                q == (j0 + b - j) \div Pi
            IN  IF q % 2 = 0 THEN v[j0] ELSE -v[j0]]

\* v * sqrt(2)^e;  sqrt(2) = z^(Pi/4) + z^(-Pi/4)
RECURSIVE TimesSqrt2(_, _)
TimesSqrt2(v, e) ==
    IF e = 0 THEN v
    ELSE IF e = 1 THEN Plus(TimesZ(v, Pi \div 4), TimesZ(v, -(Pi \div 4)))
    ELSE LET w == TimesSqrt2(v, e - 2) IN Plus(w, w)

Bit(b, q) == (b \div (2 ^ q)) % 2

\* The index b with bit q set to x.
WithBit(b, q, x) == b - Bit(b, q) * (2 ^ q) + x * (2 ^ q)

AllZero(n) == [amp |-> [b \in 0..(2 ^ n - 1) |-> IF b = 0 THEN One ELSE Zero], h |-> 0]

\* Exp([PauliZ], a, [q]) = e^(i a Z); Exp([PauliI], a, [q]) = e^(i a);
\* S = diag(1, i); H = [[1, 1], [1, -1]] / sqrt(2); CNOT flips the target
\* where the control is 1.
ApplyGate(g, st) ==
    LET q == g.target
        dom == DOMAIN st.amp
    IN  CASE g.op = "ExpZ" ->
               [st EXCEPT !.amp = [b \in dom |->
                   TimesZ(st.amp[b], IF Bit(b, q) = 0 THEN g.angle ELSE -g.angle)]]
          [] g.op = "ExpI" ->
               [st EXCEPT !.amp = [b \in dom |-> TimesZ(st.amp[b], g.angle)]]
          [] g.op = "S" ->
               [st EXCEPT !.amp = [b \in dom |->
                   IF Bit(b, q) = 0 THEN st.amp[b] ELSE TimesZ(st.amp[b], Pi \div 2)]]
          [] g.op = "AdjS" ->
               [st EXCEPT !.amp = [b \in dom |->
                   IF Bit(b, q) = 0 THEN st.amp[b] ELSE TimesZ(st.amp[b], -(Pi \div 2))]]
          [] g.op = "H" ->
               [amp |-> [b \in dom |->
                   IF Bit(b, q) = 0
                   THEN Plus(st.amp[WithBit(b, q, 0)], st.amp[WithBit(b, q, 1)])
                   ELSE Minus(st.amp[WithBit(b, q, 0)], st.amp[WithBit(b, q, 1)])],
                h |-> st.h + 1]
          [] g.op = "CNOT" ->
               [st EXCEPT !.amp = [b \in dom |->
                   IF Bit(b, g.controls[1]) = 1
                   THEN st.amp[WithBit(b, q, 1 - Bit(b, q))]
                   ELSE st.amp[b]]]

RECURSIVE ApplyGates(_, _, _)
ApplyGates(gates, i, st) ==
    IF i > Len(gates) THEN st ELSE ApplyGates(gates, i + 1, ApplyGate(gates[i], st))

Simulate(gates, n) == ApplyGates(gates, 1, AllZero(n))

\* The amplitude r * e^(i t), r a signed square of absolute value 0 or 1.
AsNumber(a) ==
    IF a.Magnitude = 0 THEN Zero
    ELSE IF a.Magnitude > 0 THEN TimesZ(One, a.Argument)
    ELSE TimesZ(One, a.Argument + Pi)

RECURSIVE SumSquares(_, _)
SumSquares(coefficients, i) ==
    IF i > Len(coefficients) THEN 0
    ELSE Squared(coefficients[i].Magnitude) + SumSquares(coefficients, i + 1)

RECURSIVE Log2(_)
Log2(x) == IF x <= 1 THEN 0 ELSE 1 + Log2(x \div 2)

\* st is the state normalize(coefficients): st.amp[b] / sqrt(2)^h equals
\* coefficients[b] / sqrt(sum of squares), the sum being 2^p.
IsNormalized(st, coefficients) ==
    LET p == Log2(SumSquares(coefficients, 1))
    IN  \A b \in DOMAIN st.amp :
            TimesSqrt2(st.amp[b], p) = TimesSqrt2(AsNumber(coefficients[b + 1]), st.h)

---------------------------------------------------------------------------
\* Properties.

Returned(op) == status = "returned" /\ call.op = op

\* A call of one of the two preparation entry points (not of its adjoint).
IsPreparation ==
    /\ call.op \in {"ApproximatelyPreparePureStateCP", "PreparePureStateD"}
    /\ ~call.adj

\* The coefficients of the current preparation call, in polar form, as
\* supplied and as padded to 2^n.
PolarCoefficients ==
    IF call.op = "PreparePureStateD"
    THEN [i \in 1..Len(call.coefficients) |->
             ComplexPolar(AbsI(call.coefficients[i]),
                          IF call.coefficients[i] >= 0 THEN 0 ELSE Pi)]
    ELSE call.coefficients

PaddedPolarCoefficients ==
    [i \in 1..(2 ^ Len(call.qubits)) |->
        IF i <= Len(PolarCoefficients) THEN PolarCoefficients[i] ELSE ComplexPolar(0, 0)]

BasisChange(op, target) == Gate(op, target, <<>>, 0)

\* C1: at tolerance 0, the gates emitted by a preparation, applied to the
\* all-zero state of the n qubits, give the normalized state of the
\* (padded, non-zero) coefficient vector.
C1_PreparesNormalizedState ==
    (/\ status = "returned"
     /\ IsPreparation
     /\ call.tolerance = 0
     /\ SumSquares(PaddedPolarCoefficients, 1) > 0)
    => IsNormalized(Simulate(sink, Len(call.qubits)), PaddedPolarCoefficients)

\* C1 witness: (|0> + |2>) / sqrt(2) was prepared on two qubits.
C1_Witness ==
    /\ Returned("ApproximatelyPreparePureStateCP")
    /\ ~call.adj
    /\ call.tolerance = 0
    /\ call.qubits = Register(2)
    /\ call.coefficients = <<ComplexPolar(1, 0), ComplexPolar(0, 0), ComplexPolar(1, 0)>>
    /\ Len(sink) > 4
    /\ Simulate(sink, 2).amp[2] # Zero

\* The preparation of |0> on one qubit at tolerance 0.
C2_Case ==
    /\ status = "returned"
    /\ IsPreparation
    /\ call.tolerance = 0
    /\ call.qubits = Register(1)
    /\ PolarCoefficients = <<ComplexPolar(1, 0), ComplexPolar(0, 0)>>

\* C2 as stated: preparing [1, 0] on one qubit at tolerance 0 emits nothing.
C2_Original == C2_Case => sink = <<>>

\* C2: preparing [1, 0] on one qubit at tolerance 0 emits no rotation and
\* no global phase, but it does emit the basis changes around the (empty)
\* Y-axis multiplex: Adjoint S, H, H, S on the qubit.
C2_OnlyBasisChanges ==
    C2_Case => sink = <<BasisChange("AdjS", 0), BasisChange("H", 0),
                        BasisChange("H", 0), BasisChange("S", 0)>>

C2_Witness == C2_Case /\ call.op = "PreparePureStateD" /\ Len(sink) = 4

\* The number of qubits that index the coefficients of the current call.
IndexQubits ==
    IF call.op \in {"ApproximatelyMultiplexZ", "ApproximatelyMultiplexPauli"}
    THEN Len(call.qubits) - 1
    ELSE Len(call.qubits)

\* A call of an operation that pads its coefficients itself.
IsPadding ==
    call.op \in {"PreparePureStateD", "ApproximatelyPreparePureStateCP",
                 "ApproximatelyMultiplexZ", "ApproximatelyApplyDiagonalUnitary"}

\* C3: a call of a padding operation with more coefficients than 2^n fails,
\* and a padding operation that fails has emitted no gate: the sink is as
\* it was before the call.
C3_TooManyCoefficientsFail ==
    IsPadding =>
        /\ Len(call.coefficients) > 2 ^ IndexQubits => status = "failed"
        /\ status = "failed" => sink = <<>>

C3_Witness ==
    /\ call.op = "ApproximatelyPreparePureStateCP"
    /\ call.qubits = Register(1)
    /\ Len(call.coefficients) = 3
    /\ call.coefficients[1].Magnitude = 1
    /\ status = "failed"

\* C4 as stated: a preparation with a negative tolerance fails and emits
\* nothing.
C4_Original ==
    (call.op = "ApproximatelyPreparePureStateCP" /\ call.tolerance < 0)
        => (status = "failed" /\ sink = <<>>)

\* C4: a preparation with a negative tolerance (and at most 2^n
\* coefficients) returns without error, and no test prunes anything: it
\* emits the complete sequence of 6 * (2^n - 1) + 1 gates.
C4_NegativeToleranceEmitsAll ==
    (/\ call.op = "ApproximatelyPreparePureStateCP"
     /\ call.tolerance < 0
     /\ Len(call.coefficients) <= 2 ^ Len(call.qubits))
    => (/\ status = "returned"
        /\ Len(sink) = 6 * (2 ^ Len(call.qubits) - 1) + 1)

C4_Witness ==
    /\ Returned("ApproximatelyPreparePureStateCP")
    /\ ~call.adj
    /\ call.tolerance < 0
    /\ call.qubits = Register(2)
    /\ Len(sink) = 19

GateCount(adj, tolerance, coefficients, qubits) ==
    Len(Gates(ApproximatelyPreparePureStateCP(adj, tolerance, coefficients, qubits).ev))

\* C5: the number of gates a preparation emits does not grow with the
\* tolerance: at every tolerance between 0 and the one of this call, the
\* same coefficients and register give at least as many gates.
C5_GateCountNonIncreasing ==
    (Returned("ApproximatelyPreparePureStateCP") /\ call.tolerance >= 0)
    => \A tol1 \in Tolerances :
           (0 <= tol1 /\ tol1 <= call.tolerance)
               => GateCount(call.adj, tol1, call.coefficients, call.qubits) >= Len(sink)

\* C5 witness: a tolerance that pruned some but not all of the gates
\* emitted at tolerance 0.
C5_Witness ==
    /\ Returned("ApproximatelyPreparePureStateCP")
    /\ ~call.adj
    /\ call.tolerance > 0
    /\ call.qubits = Register(2)
    /\ Len(sink) > 0
    /\ Len(sink) < GateCount(call.adj, 0, call.coefficients, call.qubits)

\* The adjoint of a gate, and of a gate sequence.
AdjointGate(g) ==
    [g EXCEPT !.angle = -g.angle,
              !.op = IF g.op = "S" THEN "AdjS" ELSE IF g.op = "AdjS" THEN "S" ELSE g.op]

Inverted(gates) == [i \in 1..Len(gates) |-> AdjointGate(gates[Len(gates) + 1 - i])]

\* What the unprepare recursion emits on the padded coefficients of the
\* current call, target = qubit 0, controls = qubits 1 .. n-1.
UnprepareSequence ==
    Gates(ApproximatelyUnprepareArbitraryState(FALSE, call.tolerance, PaddedPolarCoefficients,
              Range(1, 1, Len(call.qubits) - 1), 0, call.qubits).ev)

\* C6: what a preparation emits is the unprepare sequence reversed, with
\* every angle negated and every basis change replaced by its inverse;
\* inverting twice gives the unprepare sequence back.
C6_PrepareIsInvertedUnprepare ==
    (Returned("ApproximatelyPreparePureStateCP") /\ ~call.adj)
    => /\ sink = Inverted(UnprepareSequence)
       /\ Inverted(sink) = UnprepareSequence

\* C6 witness: a two-qubit preparation with a rotation of non-zero angle,
\* a global phase and a basis change, not symmetric under inversion.
C6_Witness ==
    /\ Returned("ApproximatelyPreparePureStateCP")
    /\ ~call.adj
    /\ call.qubits = Register(2)
    /\ \E i \in 1..Len(sink) : sink[i].op = "ExpZ" /\ sink[i].angle # 0
    /\ \E i \in 1..Len(sink) : sink[i].op = "ExpI"
    /\ \E i \in 1..Len(sink) : sink[i].op = "AdjS"
    /\ sink # UnprepareSequence

\* The conversion of a real coefficient: magnitude |a|, phase 0 or pi.
FromReal(a) == ComplexPolar(IF a < 0 THEN -a ELSE a, IF a >= 0 THEN 0 ELSE Pi)

\* C7: the real entry point emits what the complex entry point emits at
\* tolerance 0 on the converted coefficients, and fails where it fails.
C7_RealIsComplexAtZero ==
    call.op = "PreparePureStateD"
    => LET converted == [i \in 1..Len(call.coefficients) |-> FromReal(call.coefficients[i])]
           complex == ApproximatelyPreparePureStateCP(call.adj, 0, converted, call.qubits)
       IN  /\ sink = Gates(complex.ev)
           /\ (status = "returned") = complex.ok

\* C7 witness: a real vector with a negative entry was prepared.
C7_Witness ==
    /\ Returned("PreparePureStateD")
    /\ ~call.adj
    /\ call.qubits = Register(2)
    /\ \E i \in 1..Len(call.coefficients) : call.coefficients[i] < 0
    /\ \E i \in 1..Len(sink) : sink[i].op = "ExpZ" /\ sink[i].angle # 0

\* The coefficients of the current call with every magnitude replaced by
\* its absolute value.
AbsoluteCoefficients ==
    [i \in 1..Len(call.coefficients) |->
        ComplexPolar(AbsI(call.coefficients[i].Magnitude), call.coefficients[i].Argument)]

\* C8: a negative magnitude is treated as its absolute value: the call
\* emits what it emits on the coefficients with absolute magnitudes.
C8_NegativeMagnitudeAsAbsolute ==
    Returned("ApproximatelyPreparePureStateCP")
    => sink = Gates(ApproximatelyPreparePureStateCP(call.adj, call.tolerance,
                        AbsoluteCoefficients, call.qubits).ev)

\* The current call is BlochSphereCoordinates on two zero magnitudes.
C9_Case ==
    /\ Returned("BlochSphereCoordinates")
    /\ call.coefficients[1].Magnitude = 0
    /\ call.coefficients[2].Magnitude = 0

\* C9 as stated: on two zero magnitudes theta = 0 and phi = 0, whatever
\* the phases.
C9_Original == C9_Case => (ret[3] = 0 /\ ret[2] = 0)

\* C9: on two zero magnitudes the extraction does not fail and theta = 0,
\* the merged magnitude is 0, and phi = t1 - t0 as for any other pair:
\* phi is 0 exactly when the two phases are equal.
C9_DegeneratePair ==
    C9_Case => /\ ret[3] = 0
               /\ ret[1].Magnitude = 0
               /\ ret[2] = call.coefficients[2].Argument - call.coefficients[1].Argument

C9_Witness ==
    /\ C9_Case
    /\ call.coefficients[1].Argument = 0
    /\ call.coefficients[2].Argument = Pi
    /\ ret[2] = Pi

\* The angles of the current multiplex call padded to 2^k, their half sums
\* and half differences.
C10_Angles ==
    [i \in 1..(2 ^ IndexQubits) |->
        IF i <= Len(call.coefficients) THEN call.coefficients[i] ELSE 0]

C10_Even ==
    [i \in 1..(2 ^ IndexQubits \div 2) |->
        (C10_Angles[i] + C10_Angles[i + (2 ^ IndexQubits \div 2)]) \div 2]

C10_Odd ==
    [i \in 1..(2 ^ IndexQubits \div 2) |->
        (C10_Angles[i] - C10_Angles[i + (2 ^ IndexQubits \div 2)]) \div 2]

C10_Sub(angles) ==
    Gates(ApproximatelyMultiplexZ(FALSE, call.tolerance, angles,
              SubSeq(call.qubits, 2, Len(call.qubits) - 1), call.qubits[1]).ev)

\* C10: the Z-axis multiplex emits, without controls, one Z rotation of
\* angles[0] iff |angles[0]| > tolerance; with controls, the sequence of
\* the half sums on the controls without the last, then, iff some half
\* difference has absolute value >= tolerance, CNOT(last control, target),
\* the sequence of the half differences, and the same CNOT again.
C10_MultiplexZRecurrence ==
    (Returned("ApproximatelyMultiplexZ") /\ ~call.adj)
    => IF IndexQubits = 0
       THEN sink = IF AbsI(C10_Angles[1]) > call.tolerance
                   THEN <<Gate("ExpZ", call.qubits[1], <<>>, C10_Angles[1])>>
                   ELSE <<>>
       ELSE LET cnot == Gate("CNOT", call.qubits[1], <<call.qubits[Len(call.qubits)]>>, 0)
            IN  sink = C10_Sub(C10_Even) \o
                       (IF \E i \in 1..Len(C10_Odd) : AbsI(C10_Odd[i]) >= call.tolerance
                        THEN <<cnot>> \o C10_Sub(C10_Odd) \o <<cnot>>
                        ELSE <<>>)

\* C10 witness: two controls, the odd branch taken at the top and a
\* rotation emitted, and an odd branch pruned at tolerance > 0 below.
C10_Witness ==
    /\ Returned("ApproximatelyMultiplexZ")
    /\ ~call.adj
    /\ IndexQubits = 2
    /\ call.tolerance > 0
    /\ \E i \in 1..Len(sink) : sink[i].op = "ExpZ"
    /\ \E i \in 1..Len(sink) : sink[i].op = "CNOT" /\ sink[i].controls = <<2>>
    /\ ~ \E i \in 1..Len(sink) : sink[i].op = "CNOT" /\ sink[i].controls = <<1>>

\* The positions of the trace where the operation op was entered.
Entries(op) == {i \in 1..Len(trace) : trace[i].kind = "call" /\ trace[i].op = op}

\* The current call is the Z-axis multiplex on angles that are all zero.
C11_Case ==
    /\ Returned("ApproximatelyMultiplexZ")
    /\ \A i \in 1..Len(call.coefficients) : call.coefficients[i] = 0

\* C11: on all-zero angles with k controls the Z-axis multiplex emits no
\* rotation at tolerance 0 but expands every odd subtree (2^(k+1) - 1
\* invocations, 2^k of them without controls); at a tolerance > 0 it skips
\* every odd subtree: k + 1 invocations, one of them without controls, and
\* no gate at all.
C11_PruningAsymmetry ==
    C11_Case
    => LET k == IndexQubits
           invocations == Entries("ApproximatelyMultiplexZ")
           leaves == {i \in invocations : trace[i].controls = <<>>}
       IN  /\ call.tolerance = 0
              => /\ ~ \E i \in 1..Len(sink) : sink[i].op = "ExpZ"
                 /\ Cardinality(invocations) = 2 ^ (k + 1) - 1
                 /\ Cardinality(leaves) = 2 ^ k
           /\ call.tolerance > 0
              => /\ sink = <<>>
                 /\ Cardinality(invocations) = k + 1
                 /\ Cardinality(leaves) = 1

\* C11 witness: two controls at tolerance 0: seven invocations, and the
\* three expanded odd subtrees leave their six CNOTs in the sink.
C11_Witness ==
    /\ C11_Case
    /\ IndexQubits = 2
    /\ call.tolerance = 0
    /\ Cardinality(Entries("ApproximatelyMultiplexZ")) = 7
    /\ Len(sink) = 6

\* The current call is the multiplexed rotation about the X or the Y axis.
C12_Case ==
    /\ Returned("ApproximatelyMultiplexPauli")
    /\ call.pauli \in {"PauliX", "PauliY"}

\* What the Z-axis synthesis emits on the angles, controls and target of
\* the current multiplex call.
C12_ZSynthesis ==
    Gates(ApproximatelyMultiplexZ(FALSE, call.tolerance, call.coefficients,
              SubSeq(call.qubits, 2, Len(call.qubits)), call.qubits[1]).ev)

C12_Basis(op) == <<Gate(op, call.qubits[1], <<>>, 0)>>

IsUnpreparation ==
    /\ Returned("ApproximatelyPreparePureStateCP")
    /\ call.adj

\* The gates of a sequence that rotate or change the basis of qubit j (the
\* global phase left out).
RECURSIVE GatesOn(_, _)
GatesOn(gates, j) ==
    IF gates = <<>> THEN <<>>
    ELSE (IF Head(gates).target = j /\ Head(gates).op # "ExpI"
          THEN <<Head(gates)>> ELSE <<>>) \o GatesOn(Tail(gates), j)

\* The recursion reached the level whose target is qubit j.
LevelReached(j) ==
    \E i \in Entries("ApproximatelyUnprepareArbitraryState") : trace[i].target = j

\* The extractor's outputs on the pairs (c[2i], c[2i+1]) of a vector c:
\* phi_i, theta_i and the merged amplitudes.
C13_Phi(c) ==
    [i \in 1..(Len(c) \div 2) |-> c[2 * i].Argument - c[2 * i - 1].Argument]

C13_Theta(c) ==
    [i \in 1..(Len(c) \div 2) |-> 2 * ArcTan2(c[2 * i].Magnitude, c[2 * i - 1].Magnitude)]

C13_Merged(c) ==
    [i \in 1..(Len(c) \div 2) |->
        ComplexPolar(Sqrt(Squared(c[2 * i - 1].Magnitude) + Squared(c[2 * i].Magnitude)),
                     (c[2 * i - 1].Argument + c[2 * i].Argument) \div 2)]

\* The coefficient vector of level j: the padded input merged j times.
RECURSIVE C13_Level(_)
C13_Level(j) == IF j = 0 THEN PaddedPolarCoefficients ELSE C13_Merged(C13_Level(j - 1))

\* What level j emits on its target when the multiplexed rotation about
\* the given axis is handed the vector angles / divisor, and invoked iff
\* some entry of that vector has absolute value >= tolerance.
C13_Step(j, angles, divisor, pauli) ==
    LET handed == [i \in 1..Len(angles) |-> angles[i] \div divisor]
    IN  IF \E i \in 1..Len(handed) : AbsI(handed[i]) >= call.tolerance
        THEN Gates(ApproximatelyMultiplexPauli(FALSE, call.tolerance, handed, pauli,
                       SubSeq(call.qubits, j + 2, Len(call.qubits)), call.qubits[j + 1]).ev)
        ELSE <<>>

C13_LevelGates(j, divisor) ==
    IF LevelReached(j)
    THEN C13_Step(j, C13_Phi(C13_Level(j)), divisor, "PauliZ")
             \o C13_Step(j, C13_Theta(C13_Level(j)), divisor, "PauliY")
    ELSE <<>>

\* C13 as stated: the vectors handed to the multiplexed rotation are phi
\* and theta themselves.
C13_Original ==
    IsUnpreparation
    => \A j \in 0..(Len(call.qubits) - 1) : GatesOn(sink, j) = C13_LevelGates(j, 1)

\* C13: at every level reached the Z-axis vector handed to the multiplexed
\* rotation is phi / 2 and the Y-axis vector is theta / 2, each synthesis
\* being invoked iff some entry of the halved vector has absolute value
\* >= tolerance, and the next level works on the merged amplitudes
\* (sqrt(r0^2 + r1^2), (t0 + t1) / 2).
C13_HalvedAngles ==
    IsUnpreparation
    => \A j \in 0..(Len(call.qubits) - 1) : GatesOn(sink, j) = C13_LevelGates(j, 2)

\* C13 witness: a two-qubit run with a non-zero Z rotation at the first
\* level and gates at the second level, from phases and magnitudes that
\* both differ inside a pair.
C13_Witness ==
    /\ IsUnpreparation
    /\ Len(call.qubits) = 2
    /\ call.tolerance > 0
    /\ LevelReached(1)
    /\ \E i \in 1..Len(sink) : sink[i].op = "ExpZ" /\ sink[i].target = 0 /\ sink[i].angle # 0
    /\ \E i \in 1..Len(sink) : sink[i].op = "ExpZ" /\ sink[i].target = 1 /\ sink[i].angle # 0
    /\ \E i \in 1..Len(C13_Phi(PaddedPolarCoefficients)) :
           C13_Phi(PaddedPolarCoefficients)[i] # 0

\* The entry of the unprepare recursion at the level whose target is j.
C14_Entry(j) ==
    CHOOSE i \in Entries("ApproximatelyUnprepareArbitraryState") : trace[i].target = j

\* Some merged amplitude of level j (the vector level j + 1 would work on)
\* has magnitude > tolerance.
C14_MergedExceeds(j) ==
    \E i \in 1..Len(C13_Level(j + 1)) :
        MagnitudeExceeds(C13_Level(j + 1)[i].Magnitude, call.tolerance)

\* On the target j, the Z-axis multiplex gates (rotations and CNOTs) all
\* come before the Y-axis multiplex gates (Adjoint S .. S).
C14_ZBeforeY(j) ==
    LET level == GatesOn(sink, j)
        opening == {p \in 1..Len(level) : level[p].op = "AdjS"}
    IN  /\ Cardinality(opening) <= 1
        /\ \A p \in opening :
            /\ \A q \in 1..(p - 1) : level[q].op \in {"ExpZ", "CNOT"}
            /\ level[Len(level)].op = "S"
        /\ opening = {} => \A q \in 1..Len(level) : level[q].op \in {"ExpZ", "CNOT"}

\* C14: in the unprepare recursion the gates of a level are its Z-axis
\* multiplex, then its Y-axis multiplex, and they precede every gate of the
\* next level; level j has target qubit j, controls j+1 .. n-1 and a vector
\* of length 2^(n-j) (half the one above); while controls remain, level
\* j + 1 is entered iff some merged amplitude has magnitude > tolerance.
C14_LevelOrder ==
    IsUnpreparation
    => LET n == Len(call.qubits)
           levels == Entries("ApproximatelyUnprepareArbitraryState")
       IN  /\ LevelReached(0)
           /\ \A i \in levels, k \in levels :
                  i < k => trace[i].target < trace[k].target
           /\ \A j \in 0..(n - 1) :
                  /\ C14_ZBeforeY(j)
                  /\ LevelReached(j)
                     => /\ trace[C14_Entry(j)].controls = SubSeq(call.qubits, j + 2, n)
                        /\ trace[C14_Entry(j)].len = 2 ^ (n - j)
                  /\ ~LevelReached(j) => GatesOn(sink, j) = <<>>
                  /\ j + 1 < n
                     => (LevelReached(j + 1) <=> (LevelReached(j) /\ C14_MergedExceeds(j)))
           /\ \A p \in 1..Len(sink), q \in 1..Len(sink) :
                  p < q => sink[p].target <= sink[q].target

\* C14 witness: two qubits at tolerance 0, the first level emitting a
\* Z rotation and then its Y-axis multiplex, the second level entered and
\* emitting gates on qubit 1.
C14_Witness ==
    /\ IsUnpreparation
    /\ Len(call.qubits) = 2
    /\ call.tolerance = 0
    /\ GatesOn(sink, 0) # <<>>
    /\ GatesOn(sink, 0)[1].op = "ExpZ"
    /\ \E p \in 1..Len(sink) : sink[p].op = "AdjS" /\ sink[p].target = 0
    /\ LevelReached(1)
    /\ GatesOn(sink, 1) # <<>>

\* The positions of the global-phase gates in the sink.
C15_PhaseGates == {p \in 1..Len(sink) : sink[p].op = "ExpI"}

\* The phase t of the single amplitude left when no controls remain: the
\* padded input merged n times.
C15_FinalPhase == C13_Level(Len(call.qubits))[1].Argument

C16_IsRoot(i) ==
    \/ i = 1
    \/ (trace[i - 1].kind = "call" /\ trace[i - 1].op # "ApproximatelyMultiplexZ")
    \/ (trace[i - 1].kind = "gate" /\ trace[i - 1].op = "ControlledX")

\* The invocation that made the recursive invocation at position i: the
\* latest earlier one with more controls.
C16_Parent(i) ==
    LET earlier == {p \in Entries("ApproximatelyMultiplexZ") :
                        p < i /\ Len(trace[p].controls) > Len(trace[i].controls)}
    IN  CHOOSE p \in earlier : \A q \in earlier : q <= p

\* The length the Z-axis multiplex entered at position i works on, after
\* its padding.
C16_Worked(i) ==
    IF trace[i].len <= 2 ^ Len(trace[i].controls)
    THEN 2 ^ Len(trace[i].controls) ELSE trace[i].len

\* C16: in a call of a preparation with at most 2^n coefficients, the
\* unprepare recursion is entered with 2^(k+1) coefficients, k the number
\* of its controls, and each of its levels gets half the length and one
\* control fewer than the level before; the Z-axis multiplex is entered
\* there with 2^k angles for k controls; and every recursive call of the
\* Z-axis multiplex, in any call, gets exactly half the length its caller
\* works on, a power of two, with the caller's controls but the last.
C16_LengthInvariant ==
    LET levels == Entries("ApproximatelyUnprepareArbitraryState")
        multiplexes == Entries("ApproximatelyMultiplexZ")
    IN  /\ \A i \in levels :
              /\ trace[i].len = 2 ^ (Len(trace[i].controls) + 1)
              /\ \A k \in levels :
                     (i < k /\ ~ \E m \in levels : i < m /\ m < k)
                     => /\ 2 * trace[k].len = trace[i].len
                        /\ trace[k].controls = Tail(trace[i].controls)
                        /\ trace[k].target = Head(trace[i].controls)
        /\ \A i \in multiplexes :
              IF C16_IsRoot(i)
              THEN call.op \in {"ApproximatelyPreparePureStateCP", "PreparePureStateD"}
                   => trace[i].len = 2 ^ Len(trace[i].controls)
              ELSE /\ trace[i].len = 2 ^ Len(trace[i].controls)
                   /\ 2 * trace[i].len = C16_Worked(C16_Parent(i))
                   /\ trace[i].controls = Most(trace[C16_Parent(i)].controls)
                   /\ trace[i].target = trace[C16_Parent(i)].target

\* C16 witness: a preparation of two qubits from three coefficients whose
\* trace holds both levels of the unprepare recursion (4 and 2
\* coefficients) and a recursive Z-axis multiplex of one angle.
C16_Witness ==
    /\ Returned("ApproximatelyPreparePureStateCP")
    /\ Len(call.qubits) = 2
    /\ Len(call.coefficients) = 3
    /\ Cardinality(Entries("ApproximatelyUnprepareArbitraryState")) = 2
    /\ \E i \in Entries("ApproximatelyMultiplexZ") :
           ~C16_IsRoot(i) /\ trace[i].len = 1 /\ trace[C16_Parent(i)].len = 2

\* Position i of the trace is an entry of the Z-axis multiplex.
C17_IsMultiplexZ(i) == trace[i].kind = "call" /\ trace[i].op = "ApproximatelyMultiplexZ"

\* The latest invocation of the Z-axis multiplex at or before position p
\* with more controls than the one at position i (0 if there is none).
RECURSIVE C17_LastAbove(_, _)
C17_LastAbove(p, i) ==
    IF p = 0 THEN 0
    ELSE IF C17_IsMultiplexZ(p) /\ Len(trace[p].controls) > Len(trace[i].controls)
    THEN p
    ELSE C17_LastAbove(p - 1, i)

\* The invocation that made the recursive invocation at position i: the
\* entry right before i when i is the first thing its caller did, else the
\* latest earlier invocation with more controls (i then comes right after
\* a CNOT of its caller).
C17_Caller(i) ==
    IF trace[i - 1].kind = "call" THEN i - 1 ELSE C17_LastAbove(i - 1, i)

\* The invocation at position i has a caller with the same target and
\* exactly one control more: its own controls followed by the control of
\* the CNOT it comes after, if it comes after one.
C17_HasCaller(i) ==
    LET p == C17_Caller(i)
    IN  /\ p > 0
        /\ C17_IsMultiplexZ(p)
        /\ trace[p].target = trace[i].target
        /\ trace[p].controls # <<>>
        /\ trace[i].controls = Most(trace[p].controls)
        /\ trace[i - 1].kind = "gate"
           => /\ trace[i - 1].op = "CNOT"
              /\ trace[i - 1].controls = <<TailOf(trace[p].controls)>>

\* The recursion depth of the invocation at position i, and the number of
\* controls of the invocation its recursion started from.
RECURSIVE C17_Depth(_)
C17_Depth(i) == IF i <= 1 \/ C16_IsRoot(i) THEN 0 ELSE 1 + C17_Depth(C17_Caller(i))

RECURSIVE C17_RootControls(_)
C17_RootControls(i) ==
    IF i <= 0 THEN 0
    ELSE IF C16_IsRoot(i) THEN Len(trace[i].controls)
    ELSE C17_RootControls(C17_Caller(i))

\* Successive entries of an operation in the trace have one control fewer
\* each, and there are at most most of them.
C17_Chain(op, most) ==
    /\ Cardinality(Entries(op)) <= most
    /\ \A i \in Entries(op), k \in Entries(op) :
           (i < k /\ ~ \E m \in Entries(op) : i < m /\ m < k)
           => Len(trace[k].controls) = Len(trace[i].controls) - 1

\* C17: every call ends, returned or failed, after a bounded recursion:
\* the unprepare recursion has at most n levels, the diagonal synthesis on
\* k qubits at most k, each with one control fewer than the one before;
\* and every recursive invocation of the Z-axis multiplex has a caller
\* with exactly one control more, so that its depth is at most the number
\* of controls the recursion started with.
C17_BoundedRecursion ==
    status # "idle"
    => /\ status \in {"returned", "failed"}
       /\ C17_Chain("ApproximatelyUnprepareArbitraryState", Len(call.qubits))
       /\ C17_Chain("ApproximatelyApplyDiagonalUnitary",
                    IF IndexQubits > 1 THEN IndexQubits ELSE 1)
       /\ \A i \in Entries("ApproximatelyMultiplexZ") :
              \/ C16_IsRoot(i)
              \/ /\ C17_HasCaller(i)
                 /\ C17_Depth(i) <= C17_RootControls(i)
                 /\ C17_Depth(i) + Len(trace[i].controls) = C17_RootControls(i)

\* C17 witness: a Z-axis multiplex with two controls at a tolerance > 0
\* that went two levels deep inside an odd subtree (right after a CNOT).
C17_Witness ==
    /\ Returned("ApproximatelyMultiplexZ")
    /\ IndexQubits = 2
    /\ call.tolerance > 0
    /\ \E i \in Entries("ApproximatelyMultiplexZ") :
           /\ ~C16_IsRoot(i)
           /\ C17_HasCaller(i)
           /\ C17_Depth(i) = 2
           /\ trace[i - 1].kind = "gate"

\* The controls and the outer control of the current controlled call.
C18_Control == SubSeq(call.qubits, 2, Len(call.qubits) - 1)

C18_Outer == call.qubits[Len(call.qubits)]

\* The angles of the current controlled call padded to 2^k at the tail,
\* their halves and the opposite of their halves.
C18_Angles ==
    [i \in 1..(2 ^ Len(C18_Control)) |->
        IF i <= Len(call.coefficients) THEN call.coefficients[i] ELSE 0]

C18_Half == [i \in 1..Len(C18_Angles) |-> C18_Angles[i] \div 2]

C18_MinusHalf == [i \in 1..Len(C18_Angles) |-> -(C18_Angles[i] \div 2)]

C18_Uncontrolled(angles, control) ==
    Gates(ApproximatelyMultiplexZ(FALSE, call.tolerance, angles, control, call.qubits[1]).ev)

\* A gate sequence with every bit-flip controlled by a register of one
\* qubit written as the CNOT from that qubit.
C18_AsCNOT(gates) ==
    [i \in 1..Len(gates) |->
        IF gates[i].op = "ControlledX" THEN [gates[i] EXCEPT !.op = "CNOT"] ELSE gates[i]]

\* C18: the controlled Z-axis multiplex emits the uncontrolled synthesis
\* of angles / 2 on its own controls, then, iff some |angles[i] / 2| >=
\* tolerance, the bit-flip of the target controlled by the outer register,
\* the uncontrolled synthesis of -angles / 2 and the same bit-flip again;
\* which is one more level of the recursion, the outer control added as
\* last control, on the angles prefixed by as many zeros.
C18_ControlledIsOneMoreLevel ==
    Returned("ControlledApproximatelyMultiplexZ")
    => LET flip == <<Gate("ControlledX", call.qubits[1], <<C18_Outer>>, 0)>>
       IN  /\ sink = C18_Uncontrolled(C18_Half, C18_Control) \o
                     (IF \E i \in 1..Len(C18_Half) : AbsI(C18_Half[i]) >= call.tolerance
                      THEN flip \o C18_Uncontrolled(C18_MinusHalf, C18_Control) \o flip
                      ELSE <<>>)
           /\ C18_AsCNOT(sink) =
                  C18_Uncontrolled(Repeated(0, Len(C18_Angles)) \o C18_Angles,
                                   C18_Control \o <<C18_Outer>>)

\* C18 witness: a controlled call with one inner control at tolerance 0
\* that emitted its two controlled bit-flips around a rotation, after a
\* rotation of the first synthesis.
C18_Witness ==
    /\ Returned("ControlledApproximatelyMultiplexZ")
    /\ Len(C18_Control) = 1
    /\ call.tolerance = 0
    /\ \E p \in 1..Len(sink), q \in 1..Len(sink), r \in 1..Len(sink) :
           /\ p < q /\ q < r
           /\ sink[p].op = "ControlledX"
           /\ sink[q].op = "ExpZ"
           /\ sink[r].op = "ControlledX"
    /\ sink[1].op = "ExpZ"

\* The current call is the diagonal-unitary synthesis called on its own.
C19_Case == call.op = "ApproximatelyApplyDiagonalUnitary"

\* The angles of the current diagonal call padded to 2^k.
C19_Angles ==
    [i \in 1..(2 ^ Len(call.qubits)) |->
        IF i <= Len(call.coefficients) THEN call.coefficients[i] ELSE 0]

C19_Even(angles) ==
    [i \in 1..(Len(angles) \div 2) |-> (angles[i] + angles[i + Len(angles) \div 2]) \div 2]

C19_Odd(angles) ==
    [i \in 1..(Len(angles) \div 2) |-> (angles[i] - angles[i + Len(angles) \div 2]) \div 2]

\* The sequence of the claim: the Z-axis multiplex of the odd half with
\* the last qubit as target and the others as controls, then the same on
\* the even half and the register without its last qubit; with one qubit
\* left, the global phase even[0] iff |even[0]| > tolerance.
RECURSIVE C19_Sequence(_, _)
C19_Sequence(angles, register) ==
    Gates(ApproximatelyMultiplexZ(FALSE, call.tolerance, C19_Odd(angles),
                                  Most(register), TailOf(register)).ev)
    \o (IF Len(register) = 1
        THEN IF AbsI(C19_Even(angles)[1]) > call.tolerance
             THEN <<Gate("ExpI", register[1], <<>>, C19_Even(angles)[1])>>
             ELSE <<>>
        ELSE C19_Sequence(C19_Even(angles), Most(register)))

\* C19: the diagonal-unitary synthesis fails on an empty register; on k >=
\* 1 qubits it emits, level by level from the last qubit to the first, the
\* Z-axis multiplex of the odd half (run at every level, whatever the
\* tolerance) and at the last level the global phase even[0] iff
\* |even[0]| > tolerance: at most one global phase, as the last gate.
C19_DiagonalFromLastToFirst ==
    C19_Case
    => /\ call.qubits = <<>> => (status = "failed" /\ sink = <<>>)
       /\ status = "returned"
          => /\ sink = C19_Sequence(C19_Angles, call.qubits)
             /\ \A i \in Entries("ApproximatelyApplyDiagonalUnitary") :
                    /\ trace[i + 1].kind = "call"
                    /\ trace[i + 1].op = "ApproximatelyMultiplexZ"
                    /\ trace[i + 1].controls = Most(trace[i].controls)
                    /\ trace[i + 1].target = TailOf(trace[i].controls)
             /\ Cardinality(Entries("ApproximatelyApplyDiagonalUnitary")) = Len(call.qubits)
             /\ \A p \in 1..Len(sink) : sink[p].op = "ExpI" => p = Len(sink)

\* C19 witness: two qubits at tolerance 0: a multiplex gate on the last
\* qubit, then gates on the first, and the global phase at the end.
C19_Witness ==
    /\ C19_Case
    /\ status = "returned"
    /\ Len(call.qubits) = 2
    /\ call.tolerance = 0
    /\ Len(sink) >= 3
    /\ sink[1].target = 1
    /\ sink[Len(sink)].op = "ExpI"

\* The level (target qubit index) that was running when the event at
\* position p of the trace was produced, in a forward unprepare run.
C20_Level(p) ==
    LET before == {i \in Entries("ApproximatelyUnprepareArbitraryState") : i < p}
    IN  trace[CHOOSE i \in before : \A k \in before : k <= i].target

\* The qubits a gate acts on.
C20_Touched(g) == {g.target} \cup {g.controls[i] : i \in 1..Len(g.controls)}

\* C20: in the unprepare recursion a gate emitted at the level of target j
\* has target j and controls among the qubits j+1 .. n-1; so a gate never
\* touches a qubit below the target of a gate emitted before it, and never
\* a qubit outside the register.
C20_Frame ==
    IsUnpreparation
    => LET n == Len(call.qubits)
       IN  /\ \A p \in 1..Len(trace) :
                  trace[p].kind = "gate"
                  => /\ trace[p].target = C20_Level(p)
                     /\ \A i \in 1..Len(trace[p].controls) :
                            /\ trace[p].controls[i] > C20_Level(p)
                            /\ trace[p].controls[i] <= n - 1
           /\ \A p \in 1..Len(sink), q \in 1..Len(sink) :
                  p < q => \A u \in C20_Touched(sink[q]) : u >= sink[p].target
           /\ \A p \in 1..Len(sink) :
                  C20_Touched(sink[p]) \subseteq {call.qubits[i] : i \in 1..n}

\* C20 witness: two qubits: a CNOT from qubit 1 onto qubit 0 at the first
\* level, and later a gate on qubit 1 at the second level.
C20_Witness ==
    /\ IsUnpreparation
    /\ Len(call.qubits) = 2
    /\ \E p \in 1..Len(sink), q \in 1..Len(sink) :
           /\ p < q
           /\ sink[p].op = "CNOT" /\ sink[p].target = 0 /\ sink[p].controls = <<1>>
           /\ sink[q].target = 1

\* --------------------------------------------------------------------------
\* The compiler web worker: messageHandler and the dispatcher it creates.
\* --------------------------------------------------------------------------
MaxMessages == 5

\* The JavaScript values a message's `type` property takes here: absent
\* (undefined), a number, the empty string, "init" and a compiler request.
JsUndefined == [tag |-> "undefined", val |-> "undefined"]

JsNumber(text) == [tag |-> "number", val |-> text]

JsString(text) == [tag |-> "string", val |-> text]

\* !v of JavaScript on these values.
Falsy(v) ==
    \/ v.tag = "undefined"
    \/ v.tag = "number" /\ v.val = "0"
    \/ v.tag = "string" /\ v.val = ""

TypeOf(v) == v.tag

TypeValues ==
    {JsUndefined, JsNumber("7"), JsString(""), JsString("init"), JsString("run")}

\* e.data of a message event: null, or an object with (or without) a type.
MessageData ==
    {[null |-> TRUE, type |-> JsUndefined]}
        \cup {[null |-> FALSE, type |-> v] : v \in TypeValues}

\* The test on typeof only, which lets a falsy string through.
IsUnrecognizedByTypeOnly(data) == TypeOf(data.type) # "string"

\* !data.type || typeof data.type !== "string"
IsUnrecognized(data) == Falsy(data.type) \/ TypeOf(data.type) # "string"

\* One run of messageHandler on the event whose data is given.  Reading
\* data.type of null throws before anything else happens.  An "init" makes a
\* new compiler and a new dispatcher, numbered by the event that made it.
MessageHandler(data) ==
    LET n == Len(arrived) + 1
    IN  /\ arrived' = Append(arrived, data)
        /\ IF data.null
           THEN /\ uncaught' = Append(uncaught, n)
                /\ UNCHANGED <<invokeCompiler, dispatched, errors>>
           ELSE IF IsUnrecognized(data)
           THEN /\ errors' = Append(errors, [index |-> n, text |-> "Unrecognized msg"])
                /\ UNCHANGED <<invokeCompiler, dispatched, uncaught>>
           ELSE IF data.type.val = "init"
           THEN /\ invokeCompiler' = n
                /\ UNCHANGED <<dispatched, errors, uncaught>>
           ELSE IF invokeCompiler = 0
           THEN /\ errors' = Append(errors,
                        [index |-> n,
                         text |-> "Received message before the compiler was initialized"])
                /\ UNCHANGED <<invokeCompiler, dispatched, uncaught>>
           ELSE /\ dispatched' = Append(dispatched,
                        [to |-> invokeCompiler, index |-> n, data |-> data])
                /\ UNCHANGED <<invokeCompiler, errors, uncaught>>

\* The worker receives one more message event.
OnMessage ==
    /\ Len(arrived) < MaxMessages
    /\ \E data \in MessageData : MessageHandler(data)
    /\ UNCHANGED <<vars, loggerVars>>

WorkerNext == OnMessage

WorkerSpec == Init /\ [][WorkerNext]_<<vars, workerVars, loggerVars>>

\* --------------------------------------------------------------------------
\* Properties of the worker.
\* --------------------------------------------------------------------------
C21_IsInit(data) ==
    /\ ~data.null
    /\ data.type = JsString("init")

\* A request for the compiler: with typed = TRUE a non-empty string type
\* other than "init"; with typed = FALSE any string type other than "init".
C21_IsRequest(data, typed) ==
    /\ ~data.null
    /\ data.type.tag = "string"
    /\ data.type.val # "init"
    /\ IF typed THEN data.type.val # "" ELSE TRUE

\* The position of the last "init" among the first n events, 0 if none.
RECURSIVE C21_LastInit(_)
C21_LastInit(n) ==
    IF n = 0 THEN 0
    ELSE IF C21_IsInit(arrived[n]) THEN n
    ELSE C21_LastInit(n - 1)

\* The dispatcher calls the first n events must have caused: one per request
\* that came after an "init", in arrival order, to the latest dispatcher.
RECURSIVE C21_Forwarded(_, _)
C21_Forwarded(n, typed) ==
    IF n = 0 THEN <<>>
    ELSE LET rest == C21_Forwarded(n - 1, typed)
         IN  IF C21_IsRequest(arrived[n], typed) /\ C21_LastInit(n) > 0
             THEN Append(rest, [to |-> C21_LastInit(n), index |-> n, data |-> arrived[n]])
             ELSE rest

\* The requests among the first n events that came before any "init".
C21_Early(n, typed) ==
    {i \in 1..n : C21_IsRequest(arrived[i], typed) /\ C21_LastInit(i) = 0}

C21_LoggedEarly ==
    {errors[k].index : k \in {j \in 1..Len(errors) :
        errors[j].text = "Received message before the compiler was initialized"}}

MaxLogCalls == 4

MaxListeners == 2

LogLevels == {"error", "warn", "info", "debug", "trace"}

LogCalls == SelectSeq(calls, LAMBDA c : c.op = "log")

\* buffered.forEach(([level, args]) => newListener(level, args)): the calls
\* the new listener receives, in the order of the buffer.
Replay(newListener, buffer) ==
    [i \in 1..Len(buffer) |->
        [to |-> newListener, level |-> buffer[i].level, args |-> buffer[i].args]]

\* A buffer that keeps its entries after the replay.
TruncateNothing(buffer) == buffer

\* buffered.length = 0
Truncate(buffer) == SubSeq(buffer, 1, 0)

\* setListener(newListener): replay, empty the buffer, register.
SetListener(newListener) ==
    /\ delivered' = delivered \o Replay(newListener, buffered)
    /\ buffered' = Truncate(buffered)
    /\ listener' = newListener

\* passThroughLog(level, ...args): hand over to the listener if there is one,
\* and buffer otherwise.  The arguments are told apart by the call's number.
PassThroughLog(level, args) ==
    IF listener # 0
    THEN /\ delivered' = Append(delivered, [to |-> listener, level |-> level, args |-> args])
         /\ UNCHANGED <<buffered, listener>>
    ELSE /\ buffered' = Append(buffered, [level |-> level, args |-> args])
         /\ UNCHANGED <<delivered, listener>>

\* One call of a replaced log function.
Log(level) ==
    /\ Len(LogCalls) < MaxLogCalls
    /\ PassThroughLog(level, Len(LogCalls) + 1)
    /\ calls' = Append(calls, [op |-> "log", level |-> level, args |-> Len(LogCalls) + 1])
    /\ UNCHANGED <<listeners, vars, workerVars>>

LogError == Log("error")

LogWarn == Log("warn")

LogInfo == Log("info")

LogDebug == Log("debug")

LogTrace == Log("trace")

\* The test calls the function that activate() returned, with a new listener.
CallSetListener ==
    /\ listeners < MaxListeners
    /\ SetListener(listeners + 1)
    /\ listeners' = listeners + 1
    /\ calls' = Append(calls, [op |-> "setListener", level |-> "none", args |-> listeners + 1])
    /\ UNCHANGED <<vars, workerVars>>

LoggerNext ==
    \/ LogError
    \/ LogWarn
    \/ LogInfo
    \/ LogDebug
    \/ LogTrace
    \/ CallSetListener

LoggerSpec == Init /\ [][LoggerNext]_<<vars, workerVars, loggerVars>>

\* --------------------------------------------------------------------------
\* Properties of the logger.
\* --------------------------------------------------------------------------
\* The listener registered by the last setListener call among the first n
\* calls, 0 if there is none.
RECURSIVE C22_Registered(_)
C22_Registered(n) ==
    IF n = 0 THEN 0
    ELSE IF calls[n].op = "setListener" THEN calls[n].args
    ELSE C22_Registered(n - 1)

\* The position in calls of the log call numbered k.
C22_Position(k) ==
    CHOOSE p \in 1..Len(calls) : calls[p].op = "log" /\ calls[p].args = k

\* Who must receive the log call numbered k: the listener registered when it
\* was made, and the first listener if there was none yet.
C22_Receiver(k) ==
    LET r == C22_Registered(C22_Position(k))
    IN  IF r = 0 THEN 1 ELSE r

C22_Entry(e) == [level |-> e.level, args |-> e.args]

C22_Entries(s) == [i \in 1..Len(s) |-> C22_Entry(s[i])]

\* C22: whatever the order of log calls and setListener calls, the entries
\* handed to listeners followed by the entries still buffered are exactly the
\* entries logged, once each and in the order logged; an entry logged before
\* any listener was registered goes to the first listener, every other entry
\* to the listener registered when it was logged; with no listener yet
\* nothing has been delivered, and with a listener the buffer is empty.
C22_NothingLostOrReordered ==
    /\ C22_Entries(delivered) \o buffered = C22_Entries(LogCalls)
    /\ \A i \in 1..Len(delivered) : delivered[i].to = C22_Receiver(delivered[i].args)
    /\ IF listener = 0 THEN delivered = <<>> /\ listeners = 0
       ELSE buffered = <<>> /\ listener = listeners

\* Two entries buffered, replayed to the first listener, a third delivered to
\* it directly, and a fourth delivered to the second listener.
C22_Witness ==
    /\ Len(calls) = 6
    /\ calls[1].op = "log" /\ calls[2].op = "log"
    /\ calls[3].op = "setListener"
    /\ calls[4].op = "log"
    /\ calls[5].op = "setListener"
    /\ calls[6].op = "log"
    /\ Len(delivered) = 4
    /\ delivered[1].to = 1 /\ delivered[1].args = 1
    /\ delivered[2].to = 1 /\ delivered[2].args = 2
    /\ delivered[3].to = 1 /\ delivered[3].args = 3
    /\ delivered[4].to = 2 /\ delivered[4].args = 4
    /\ buffered = <<>>

====
